---- MODULE Spec2Model ----
(***************************************************************************)
(* WebRTC signaling relay (FATSapi/signaling-server-fastapi.py).           *)
(*                                                                         *)
(* One asyncio task per websocket runs websocket_endpoint.  Tasks are      *)
(* scheduled cooperatively: a task runs without interruption from one      *)
(* await to the next, so every action below is the code between two awaits *)
(* (accept, receive_json, send_json).  The registry is the single          *)
(* ConnectionManager instance: active_connections and room_users.          *)
(*                                                                         *)
(* A "for uid in some_set" loop with an await in its body keeps a set      *)
(* iterator alive across suspensions.  CPython's iterator remembers the    *)
(* size of the set when it was created and raises RuntimeError("Set        *)
(* changed size during iteration") from next() when the size differs; when *)
(* the size is the same again the iteration goes on by table position, so  *)
(* an element added meanwhile lies either before or after the position.    *)
(***************************************************************************)
EXTENDS Integers, FiniteSets, Sequences, TLC

\* ----- bounds -----------------------------------------------------------
NSessions == 4          \* websockets the transport hands to the endpoint
NTalkers == 3           \* websockets of a run in which messages are received
MaxMsgs == 2            \* inbound JSON messages receive_json returns in a run

\* ----- inputs -----------------------------------------------------------
\* Path parameters of /ws/{room_id}/{user_id}: any non-empty segment without
\* "/", so ":" may occur in either.
Pairs == { <<"r", "c">>, <<"r", "b:c">>, <<"r", "d">>, <<"r:b", "c">> }
Rooms == { p[1] : p \in Pairs }
Users == { p[2] : p \in Pairs }
Sessions == 1..NSessions
Talkers == 1..NTalkers

RelayTypes == {"offer", "answer", "ice-candidate"}
NoType == "<none>"
\* A parsed inbound JSON object: its "type" entry (NoType: no such entry)
\* and which of the payload entries it carries.
Inbound == [type : RelayTypes, fields : {{}, {"sdp"}, {"candidate"}}]
             \cup [type : {"ping", "bye", NoType}, fields : {{}}]

VARIABLES
    active_connections,   \* ConnectionManager.active_connections: key -> websocket
    room_users,           \* ConnectionManager.room_users: room_id -> set of user_id
    pc,                   \* where each websocket_endpoint task stands
    path,                 \* (room_id, user_id) of each task
    iter,                 \* the set iterator of the for loop a task is suspended in
    out,                  \* the message that loop is sending
    nread,                \* messages receive_json has returned to the task
    nmsgs,                \* messages receive_json has returned, all tasks
    ndisc,                \* history: calls of manager.disconnect by the task
    run,                  \* history of the loop a task is in: members (snap) and
                          \* running handlers (aud) of the room at its start,
                          \* <<user, websocket>> sent to, a user sent to twice
    over,                 \* history: the websocket a task's connect replaced
    heard,                \* history: heard[w][s], the last relayed message of
                          \* task s sent on websocket w
    ev                    \* what the last step put on the wire or raised

vars == <<active_connections, room_users, pc, path, iter, out, nread, nmsgs,
          ndisc, run, over, heard, ev>>

\* ----- the registry -----------------------------------------------------
\* key = f"{room_id}:{user_id}"
key(room_id, user_id) == room_id \o ":" \o user_id

\* self.active_connections[key] = websocket
connect_ac(ac, k, ws) ==
    [x \in DOMAIN ac \cup {k} |-> IF x = k THEN ws ELSE ac[x]]

\* if room_id not in self.room_users: ... = set(); .add(user_id)
connect_ru(ru, room_id, user_id) ==
    [x \in DOMAIN ru \cup {room_id} |->
        IF x = room_id
        THEN (IF room_id \in DOMAIN ru THEN ru[room_id] ELSE {}) \cup {user_id}
        ELSE ru[x]]

\* if key in self.active_connections: del self.active_connections[key]
disconnect_ac(ac, k) == [x \in DOMAIN ac \ {k} |-> ac[x]]

\* a disconnect without "if not self.room_users[room_id]: del ..."
disconnect_ru_keeps_empty(ru, room_id, user_id) ==
    IF room_id \notin DOMAIN ru THEN ru
    ELSE [ru EXCEPT ![room_id] = @ \ {user_id}]

\* discard(user_id); if the set is empty: del self.room_users[room_id]
disconnect_ru(ru, room_id, user_id) ==
    IF room_id \notin DOMAIN ru THEN ru
    ELSE IF ru[room_id] \ {user_id} = {}
         THEN [x \in DOMAIN ru \ {room_id} |-> ru[x]]
         ELSE [ru EXCEPT ![room_id] = @ \ {user_id}]

\* GET /health and GET /rooms
health == [status |-> "healthy",
           connections |-> Cardinality(DOMAIN active_connections)]
get_rooms == [active_rooms |-> Cardinality(DOMAIN room_users),
              rooms |-> room_users]

\* ----- set iterators ----------------------------------------------------
NoIter == [room |-> "", used |-> 0, seen |-> {}, stale |-> FALSE]
\* full: the message carries the payload entry its type requires
NoOut == [type |-> "", seq |-> 0, full |-> TRUE]
NoRun == [snap |-> {}, aud |-> {}, sent |-> {}, dup |-> FALSE]
NoPath == <<"", "">>
NoEv == [k |-> "none", from |-> 0, to |-> 0, user |-> "", room |-> "",
         type |-> "", seq |-> 0, prev |-> 0, ok |-> TRUE, full |-> TRUE,
         owed |-> {}, missed |-> {}, added |-> {}, dup |-> FALSE]

\* iter(self.room_users[room_id]): the iterator keeps the set's size
NewIter(ru, room_id) ==
    [room |-> room_id, used |-> Cardinality(ru[room_id]), seen |-> {},
     stale |-> FALSE]

\* next() raises when the set it iterates has another size than at creation;
\* a set deleted from room_users was emptied first
Raises(it, ru) ==
    \/ it.stale
    \/ it.room \notin DOMAIN ru
    \/ Cardinality(ru[it.room]) # it.used

Remaining(it, ru) == ru[it.room] \ it.seen

\* the members the loop body sends to: uid != user_id and key registered
Eligible(it, ru, ac, excl) ==
    { u \in Remaining(it, ru) : u # excl /\ key(it.room, u) \in DOMAIN ac }

\* set.add(user_id) on a set some tasks iterate: the new entry lands before
\* the position of the iterators in B and after that of the others
AddIters(its, room_id, user_id, B) ==
    [t \in DOMAIN its |->
        IF t \in B THEN [its[t] EXCEPT !.seen = @ \cup {user_id}] ELSE its[t]]

IteratingOn(its, room_id) ==
    { t \in DOMAIN its : its[t].room = room_id /\ ~its[t].stale }

\* set.discard(user_id) (and del of the emptied set) seen by the iterators
DiscardIters(its, ru, room_id, user_id) ==
    IF room_id \notin DOMAIN ru THEN its
    ELSE [t \in DOMAIN its |->
            IF t \in IteratingOn(its, room_id)
            THEN [its[t] EXCEPT !.seen = @ \ {user_id},
                                !.stale = (ru[room_id] \ {user_id} = {})]
            ELSE its[t]]

\* ----- history of a loop -------------------------------------------------
SentUsers(g) == { x[1] : x \in g.sent }
SentChannels(g) == { x[2] : x \in g.sent }
Live == { t \in Sessions : pc[t] \in {"notify", "open", "bcast"} }

\* the running handlers that joined room_id, other than s
Audience(s, room_id) == { n \in Live \ {s} : path[n][1] = room_id }

NewRun(s, ru, room_id) ==
    [snap |-> ru[room_id], aud |-> Audience(s, room_id), sent |-> {},
     dup |-> FALSE]

\* members at the start of the loop, still members, that it never sent to
Owed(g, ru, room_id, user_id) ==
    { u \in g.snap \ SentUsers(g) :
        u # user_id /\ room_id \in DOMAIN ru /\ u \in ru[room_id] }

\* handlers of other users of the room that ran from the start of the loop to
\* its end and whose websocket it never sent on
Missed(s, g, room_id, user_id) ==
    { n \in (g.aud \cap Live) \ ({s} \cup SentChannels(g)) :
        path[n][2] # user_id }

EndEv(s, how, room_id, user_id, o, g, ru) ==
    [NoEv EXCEPT !.k = how, !.from = s, !.room = room_id, !.type = o.type,
                 !.seq = o.seq, !.owed = Owed(g, ru, room_id, user_id),
                 !.missed = Missed(s, g, room_id, user_id),
                 !.added = SentUsers(g) \ g.snap, !.dup = g.dup]

SendEv(s, ws, t, room_id, o, ok) ==
    [NoEv EXCEPT !.k = "send", !.from = s, !.to = ws, !.user = t,
                 !.room = room_id, !.type = o.type, !.seq = o.seq,
                 !.prev = heard[ws][s], !.ok = ok, !.full = o.full]

\* the handler of s is over: its history is dropped
Forget(h, s) ==
    [w \in Sessions |-> [t \in Sessions |->
        IF w = s \/ t = s THEN 0 ELSE h[w][t]]]

\* ----- the for loops of connect and broadcast_to_room --------------------
\* a send_message without the try/except: a failing send_json propagates
send_message_raises(ok) == IF ok THEN "returned" ELSE "raised"

\* send_message: try: await websocket.send_json(message); except Exception:
\* print.  ok tells whether send_json succeeds; the call returns either way.
send_message(ok) == "returned"

\* An exception leaves the loop.  In connect (mode "notify") nothing catches
\* it: it leaves connect and websocket_endpoint, whose try starts after the
\* call.  In broadcast_to_room (mode "bcast") the endpoint's "except
\* Exception" runs manager.disconnect(room_id, user_id).
Throw(s, mode, room_id, user_id, ac, ru, its, nr, ov, e) ==
    /\ out' = [out EXCEPT ![s] = NoOut]
    /\ run' = [run EXCEPT ![s] = NoRun]
    /\ ev' = e
    /\ IF mode = "notify"
       THEN /\ active_connections' = ac
            /\ room_users' = ru
            /\ pc' = [pc EXCEPT ![s] = "escaped"]
            /\ path' = [path EXCEPT ![s] = <<room_id, user_id>>]
            /\ iter' = [its EXCEPT ![s] = NoIter]
            /\ nread' = nr
            /\ ndisc' = ndisc
            /\ over' = ov
            /\ heard' = heard
       ELSE /\ active_connections' = disconnect_ac(ac, key(room_id, user_id))
            /\ room_users' = disconnect_ru(ru, room_id, user_id)
            /\ pc' = [pc EXCEPT ![s] = "closed"]
            /\ path' = [path EXCEPT ![s] = NoPath]
            /\ iter' = [DiscardIters(its, ru, room_id, user_id)
                          EXCEPT ![s] = NoIter]
            /\ nread' = [nr EXCEPT ![s] = 0]
            /\ ndisc' = [ndisc EXCEPT ![s] = @ + 1]
            /\ over' = [ov EXCEPT ![s] = 0]
            /\ heard' = Forget(heard, s)

\* One run of the loop from a resumption to its next await: next() raises,
\* or the loop passes members it does not send to (P) and awaits
\* send_message to the next one (t), or the set is exhausted and the handler
\* goes on to receive_json.
RunLoop(s, mode, room_id, user_id, it, ac, ru, its, o, g, nr, ov) ==
    IF Raises(it, ru)
    THEN Throw(s, mode, room_id, user_id, ac, ru, its, nr, ov,
               EndEv(s, "raise", room_id, user_id, o, g,
                     IF mode = "notify" THEN ru
                     ELSE disconnect_ru(ru, room_id, user_id)))
    ELSE LET elig == Eligible(it, ru, ac, user_id)
             inel == (Remaining(it, ru) \ elig) \ {user_id}
         IN IF elig = {}
            THEN /\ active_connections' = ac
                 /\ room_users' = ru
                 /\ pc' = [pc EXCEPT ![s] = "open"]
                 /\ path' = [path EXCEPT ![s] = <<room_id, user_id>>]
                 /\ iter' = [its EXCEPT ![s] = NoIter]
                 /\ out' = [out EXCEPT ![s] = NoOut]
                 /\ nread' = nr
                 /\ ndisc' = ndisc
                 /\ run' = [run EXCEPT ![s] = NoRun]
                 /\ over' = ov
                 /\ heard' = heard
                 /\ ev' = EndEv(s, "done", room_id, user_id, o, g, ru)
            ELSE \E t \in elig, P \in SUBSET inel, ok \in BOOLEAN :
                 LET ws == ac[key(room_id, t)] IN
                 IF send_message(ok) = "raised"
                 THEN Throw(s, mode, room_id, user_id, ac, ru, its, nr, ov,
                            SendEv(s, ws, t, room_id, o, ok))
                 ELSE
                 /\ active_connections' = ac
                 /\ room_users' = ru
                 /\ pc' = [pc EXCEPT ![s] = mode]
                 /\ path' = [path EXCEPT ![s] = <<room_id, user_id>>]
                 /\ iter' = [its EXCEPT ![s] =
                                [it EXCEPT !.seen = @ \cup P \cup {t}]]
                 /\ out' = [out EXCEPT ![s] = o]
                 /\ nread' = nr
                 /\ ndisc' = ndisc
                 /\ run' = [run EXCEPT ![s] =
                              [g EXCEPT !.sent = @ \cup {<<t, ws>>},
                                        !.dup = @ \/ t \in SentUsers(g)]]
                 /\ over' = ov
                 /\ heard' = IF o.seq > 0
                             THEN [heard EXCEPT ![ws][s] = o.seq] ELSE heard
                 /\ ev' = SendEv(s, ws, t, room_id, o, ok)

\* ----- websocket_endpoint -------------------------------------------------
\* the transport hands out websockets in order
Fresh(s) == pc[s] = "idle" /\ \A t \in Sessions : t < s => pc[t] # "idle"

\* await websocket.accept() raises: nothing was registered
AcceptFails(s) ==
    /\ Fresh(s)
    /\ pc' = [pc EXCEPT ![s] = "refused"]
    /\ ev' = NoEv
    /\ UNCHANGED <<active_connections, room_users, path, iter, out, nread,
                   nmsgs, ndisc, run, over, heard>>

\* manager.connect: accept returns, the entry and the membership are stored,
\* and the peer-joined loop runs to its first send
Connect(s) ==
    /\ Fresh(s)
    /\ UNCHANGED nmsgs
    /\ \E p \in Pairs :
        LET room_id == p[1]
            user_id == p[2]
            k == key(room_id, user_id)
            ac1 == connect_ac(active_connections, k, s)
            ru1 == connect_ru(room_users, room_id, user_id)
            isNew == room_id \notin DOMAIN room_users
                       \/ user_id \notin room_users[room_id]
            o == [type |-> "peer-joined", seq |-> 0, full |-> TRUE]
            ov == [over EXCEPT ![s] = IF k \in DOMAIN active_connections
                                      THEN active_connections[k] ELSE 0]
        IN \E B \in SUBSET (IF isNew THEN IteratingOn(iter, room_id) ELSE {}) :
             RunLoop(s, "notify", room_id, user_id, NewIter(ru1, room_id),
                     ac1, ru1, AddIters(iter, room_id, user_id, B),
                     o, NewRun(s, ru1, room_id), nread, ov)

\* the task resumes from the send it was suspended in
Resume(s) ==
    /\ pc[s] \in {"notify", "bcast"}
    /\ iter[s] # NoIter
    /\ UNCHANGED nmsgs
    /\ RunLoop(s, pc[s], path[s][1], path[s][2], iter[s], active_connections,
               room_users, iter, out[s], run[s], nread, over)

\* manager.disconnect(room_id, user_id) from an except clause of the endpoint;
\* type is the type of the inbound message whose handling raised, if any
LeaveOn(s, why, type) ==
    /\ active_connections' = disconnect_ac(active_connections,
                                           key(path[s][1], path[s][2]))
    /\ room_users' = disconnect_ru(room_users, path[s][1], path[s][2])
    /\ iter' = [DiscardIters(iter, room_users, path[s][1], path[s][2])
                  EXCEPT ![s] = NoIter]
    /\ pc' = [pc EXCEPT ![s] = "closed"]
    /\ path' = [path EXCEPT ![s] = NoPath]
    /\ out' = [out EXCEPT ![s] = NoOut]
    /\ nread' = [nread EXCEPT ![s] = 0]
    /\ ndisc' = [ndisc EXCEPT ![s] = @ + 1]
    /\ run' = [run EXCEPT ![s] = NoRun]
    /\ over' = [over EXCEPT ![s] = 0]
    /\ heard' = Forget(heard, s)
    /\ ev' = [NoEv EXCEPT !.k = why, !.from = s, !.room = path[s][1],
                          !.user = path[s][2], !.type = type]

Leave(s, why) == LeaveOn(s, why, "")

\* a handler that would read on while its broadcast is suspended in a send
reads_during_fanout(s) == pc[s] \in {"open", "bcast"}

\* the handler is suspended in "data = await websocket.receive_json()"
AtReceive(s) == pc[s] = "open"

\* receive_json raises WebSocketDisconnect
RecvDisconnect(s) ==
    /\ AtReceive(s)
    /\ UNCHANGED nmsgs
    /\ Leave(s, "gone")

\* receive_json raises on text that is not JSON
RecvUnparseable(s) ==
    /\ AtReceive(s)
    /\ UNCHANGED nmsgs
    /\ Leave(s, "error")

\* the entry data[...] reads for a type
Required(type) == IF type = "ice-candidate" THEN "candidate" ELSE "sdp"

\* a dispatch ending in "else: raise" for a type it does not know
Faulty_rejects_unknown(m) ==
    \/ m.type \notin RelayTypes \cup {"ping"}
    \/ m.type \in RelayTypes /\ Required(m.type) \notin m.fields

\* a dispatch reading the payload with data.get(...): only data['type'] raises
Faulty_reads_absent(m) == m.type = NoType

\* data['type'] or data['sdp'] / data['candidate'] raises KeyError
Faulty(m) ==
    \/ m.type = NoType
    \/ m.type \in RelayTypes /\ Required(m.type) \notin m.fields

\* receive_json returns m and the handler dispatches on m['type']
Receive(s) ==
    /\ AtReceive(s)
    /\ nmsgs < MaxMsgs
    /\ nmsgs' = nmsgs + 1
    /\ \E m \in Inbound :
        IF Faulty(m)
        THEN LeaveOn(s, "error", m.type)
        ELSE IF m.type \in RelayTypes
        THEN LET o == [type |-> m.type, seq |-> nread[s] + 1,
                       full |-> Required(m.type) \in m.fields]
                 nr == [nread EXCEPT ![s] = @ + 1]
             IN IF path[s][1] \in DOMAIN room_users
                THEN RunLoop(s, "bcast", path[s][1], path[s][2],
                             NewIter(room_users, path[s][1]),
                             active_connections, room_users, iter,
                             o, NewRun(s, room_users, path[s][1]), nr, over)
                ELSE \* "if room_id in self.room_users" fails: nothing is sent
                     /\ nread' = nr
                     /\ ev' = EndEv(s, "done", path[s][1], path[s][2], o,
                                    [NoRun EXCEPT !.aud = Audience(s, path[s][1])],
                                    room_users)
                     /\ UNCHANGED <<active_connections, room_users, pc, path,
                                    iter, out, ndisc, run, over, heard>>
        ELSE IF m.type = "ping"
        THEN \E ok \in BOOLEAN :
             IF ok
             THEN /\ nread' = [nread EXCEPT ![s] = @ + 1]
                  /\ ev' = [NoEv EXCEPT !.k = "pong", !.from = s, !.to = s,
                                        !.user = path[s][2],
                                        !.room = path[s][1], !.type = "pong"]
                  /\ UNCHANGED <<active_connections, room_users, pc, path, iter,
                                 out, ndisc, run, over, heard>>
             ELSE \* send_json raises inside the try
                  LeaveOn(s, "error", m.type)
        ELSE \* no branch matches: back to receive_json
             /\ nread' = [nread EXCEPT ![s] = @ + 1]
             /\ ev' = [NoEv EXCEPT !.k = "ignored", !.from = s,
                                   !.room = path[s][1], !.type = m.type]
             /\ UNCHANGED <<active_connections, room_users, pc, path, iter,
                            out, ndisc, run, over, heard>>

\* ----- the system -------------------------------------------------------
Init ==
    /\ active_connections = <<>>
    /\ room_users = <<>>
    /\ pc = [s \in Sessions |-> "idle"]
    /\ path = [s \in Sessions |-> NoPath]
    /\ iter = [s \in Sessions |-> NoIter]
    /\ out = [s \in Sessions |-> NoOut]
    /\ nread = [s \in Sessions |-> 0]
    /\ nmsgs = 0
    /\ ndisc = [s \in Sessions |-> 0]
    /\ run = [s \in Sessions |-> NoRun]
    /\ over = [s \in Sessions |-> 0]
    /\ heard = [w \in Sessions |-> [s \in Sessions |-> 0]]
    /\ ev = NoEv

\* runs of NTalkers websockets that join, send messages and leave
Next ==
    \E s \in Talkers :
        \/ AcceptFails(s)
        \/ Connect(s)
        \/ Resume(s)
        \/ RecvDisconnect(s)
        \/ RecvUnparseable(s)
        \/ Receive(s)

Spec == Init /\ [][Next]_vars

\* runs of NSessions websockets that join and leave and send no message
NextJoins ==
    \E s \in Sessions :
        \/ AcceptFails(s)
        \/ Connect(s)
        \/ Resume(s)
        \/ RecvDisconnect(s)
        \/ RecvUnparseable(s)

SpecJoins == Init /\ [][NextJoins]_vars

TypeOK ==
    /\ DOMAIN room_users \subseteq Rooms
    /\ \A s \in Sessions : pc[s] \in {"idle", "refused", "notify", "open",
                                      "bcast", "closed", "escaped"}
    /\ \A s \in Sessions : nread[s] \in 0..MaxMsgs /\ ndisc[s] \in 0..1

\* ----- the claims ---------------------------------------------------------
\* the user registered for the handler that sent ev
Sender == path[ev.from][2]
RelaySend == ev.k = "send" /\ ev.type \in RelayTypes
RelayEnd == ev.k \in {"done", "raise"} /\ ev.type \in RelayTypes
JoinSend == ev.k = "send" /\ ev.type = "peer-joined"
JoinEnd == ev.k \in {"done", "raise"} /\ ev.type = "peer-joined"
IsMember(p) == p[1] \in DOMAIN room_users /\ p[2] \in room_users[p[1]]

\* C1: in every state another task can observe, the key "room_id:user_id" is
\* in active_connections if and only if user_id is in room_users[room_id],
\* for every pair of path strings.
C1_MembershipConsistency ==
    \A p \in Pairs :
        key(p[1], p[2]) \in DOMAIN active_connections <=> IsMember(p)

\* C2: a handler whose handshake succeeded and that has terminated has called
\* disconnect exactly once, and no handler calls it more than once.
C2_ExactlyOnceCleanup ==
    \A s \in Sessions :
        /\ ndisc[s] <= 1
        /\ pc[s] \in {"closed", "escaped"} => ndisc[s] = 1

\* C3: broadcast_to_room(room, msg, exclude_user=U) sends nothing on U's
\* channel, and when it is over every other member of the room has been sent
\* msg exactly once.
C3_ExclusionCorrectness ==
    /\ RelaySend =>
         /\ ev.user # Sender
         /\ key(ev.room, Sender) \in DOMAIN active_connections
              => ev.to # active_connections[key(ev.room, Sender)]
    /\ RelayEnd => ev.owed = {} /\ ~ev.dup

\* websockets whose entry in active_connections a later connect replaced
Old == { over[n] : n \in Sessions } \ {0}

\* C4: after connect for a (room_id, user_id) already registered the old
\* handle is out of the map, no send goes to it, and every broadcast to the
\* room issued afterwards sends on the new channel.
C4_ReconnectOverwrite ==
    /\ \A k \in DOMAIN active_connections : active_connections[k] \notin Old
    /\ ev.k = "send" => ev.to \notin Old
    /\ (ev.k = "done" /\ ev.type \in RelayTypes) =>
          \A n \in ev.missed : over[n] = 0

\* what the loop of s has yet to send to, before and after a step
Pending(s) ==
    IF iter[s] = NoIter THEN {}
    ELSE Eligible(iter[s], room_users, active_connections, path[s][2])
PendingNext(s) ==
    IF iter'[s] = NoIter THEN {}
    ELSE Eligible(iter'[s], room_users', active_connections', path'[s][2])
PendingAtStart(s) ==
    Eligible(NewIter(room_users', path'[s][1]), room_users',
             active_connections', path'[s][2])

\* C5: a send of a fan-out that fails is swallowed: the sender's handler
\* stays in its loop with its session open and registered as before, and
\* every other member the loop had yet to send to is still to be sent to.
FailedSend ==
    LET s == ev'.from IN
    /\ pc'[s] \in {"notify", "bcast"}
    /\ ndisc' = ndisc
    /\ out'[s].type = ev'.type
    /\ pc[s] # "idle" =>
          /\ active_connections' = active_connections
          /\ room_users' = room_users
    /\ PendingNext(s) = (IF pc[s] \in {"notify", "bcast"}
                         THEN Pending(s) ELSE PendingAtStart(s)) \ {ev'.user}
C6_RoomIsolation ==
    /\ (RelaySend \/ JoinSend) => path[ev.to][1] = ev.room
    /\ \A s, t \in Sessions :
         (path[s] # NoPath /\ path[t] # NoPath /\ path[s] # path[t])
            => key(path[s][1], path[s][2]) # key(path[t][1], path[t][2])

\* no handler joined as p, or every one that did has left
NotJoined(p) == ~IsMember(p) /\ \A s \in Sessions : path[s] # p

\* C7: disconnect twice gives the registry of disconnect once, and
\* disconnect of a pair that is not joined leaves the registry as it is.
C7_IdempotentLeave ==
    \A p \in Pairs :
        LET k == key(p[1], p[2])
            ac1 == disconnect_ac(active_connections, k)
            ru1 == disconnect_ru(room_users, p[1], p[2])
        IN /\ disconnect_ac(ac1, k) = ac1
           /\ disconnect_ru(ru1, p[1], p[2]) = ru1
           /\ NotJoined(p) => ac1 = active_connections /\ ru1 = room_users

\* C8: no room of room_users has an empty member set, so a room whose last
\* member has left is neither listed nor counted by GET /rooms.
C8_EmptyRoomPruning ==
    /\ \A r \in DOMAIN room_users : room_users[r] # {}
    /\ \A r \in DOMAIN get_rooms.rooms : get_rooms.rooms[r] # {}
    /\ get_rooms.active_rooms =
          Cardinality({ r \in Rooms : \E u \in Users : IsMember(<<r, u>>) })

\* the last member of a room has just left and the room is not listed
W8_LastMemberLeft ==
    /\ ev.k \in {"gone", "error"}
    /\ ev.room \notin DOMAIN get_rooms.rooms
    /\ get_rooms.active_rooms = Cardinality(DOMAIN room_users)

\* C9: connect sends no peer-joined to the joining user, and when its loop is
\* over every other member that was in the room at the join has been sent
\* exactly one.
C9_JoinNotification ==
    /\ JoinSend => ev.user # Sender /\ ev.to # ev.from
    /\ JoinEnd => ev.owed = {} /\ ~ev.dup

\* C10: a handler reads its next inbound message only when the fan-out of
\* the one before is over, every relay it sends is of the message it read
\* last, and a websocket gets the relays of one sender in the order read.
C10_PerSenderOrdering ==
    [][\A s \in Sessions :
         /\ nread'[s] > nread[s] => iter[s] = NoIter /\ out[s] = NoOut
         /\ (ev'.k = "send" /\ ev'.type \in RelayTypes /\ ev'.from = s) =>
               ev'.seq = nread'[s] /\ ev'.prev < ev'.seq]_vars

\* a websocket is sent the second message of a sender after the first
W10_SecondAfterFirst == RelaySend /\ ev.seq = 2 /\ ev.prev = 1

\* The event loop resumes a task as soon as the send_json it awaits is over.
\* Nothing bounds a send_json: the sends of the first websocket's handler go
\* to a peer that may never take them, so they alone need not complete.
Prompt == { s \in Talkers : s > 1 }
SpecStall == Spec /\ \A s \in Prompt : WF_vars(Resume(s))

\* the members of the room the loop of s has yet to send to
ToSend(s) ==
    { u \in run[s].snap \ SentUsers(run[s]) :
        /\ u # path[s][2]
        /\ IsMember(<<path[s][1], u>>)
        /\ key(path[s][1], u) \in DOMAIN active_connections }

\* C11: when a broadcast_to_room is suspended in a send that never completes,
\* the sends to the other members it has yet to send to are still issued.
C11_NoStallBySlowPeer ==
    \A s \in Sessions : (pc[s] = "bcast" /\ ToSend(s) # {}) ~> (ToSend(s) = {})

\* the step leaves the member set of room R, the entries of its members and
\* the handlers that joined it as they were
RoomUntouched(R) ==
    /\ (R \in DOMAIN room_users') = (R \in DOMAIN room_users)
    /\ R \in DOMAIN room_users =>
         /\ room_users'[R] = room_users[R]
         /\ \A u \in room_users[R] :
              key(R, u) \in DOMAIN active_connections =>
                 /\ key(R, u) \in DOMAIN active_connections'
                 /\ active_connections'[key(R, u)] =
                       active_connections[key(R, u)]
    /\ \A t \in Sessions : path[t][1] = R => pc'[t] = pc[t] /\ path'[t] = path[t]

\* the step is a connect of s that stored its entry and its membership
Registers(s) ==
    /\ key(path'[s][1], path'[s][2]) \in DOMAIN active_connections'
    /\ active_connections'[key(path'[s][1], path'[s][2])] = s
    /\ path'[s][1] \in DOMAIN room_users'
    /\ path'[s][2] \in room_users'[path'[s][1]]

\* C12: the end of a session of room R1 on an error leaves the member set,
\* the connection entries and the sessions of every other room as they were,
\* and a connect made afterwards registers.
C12_CrossRoomFaultIsolation ==
    [][\A s \in Sessions :
         /\ ndisc'[s] > ndisc[s] =>
               \A R \in Rooms \ {path[s][1]} : RoomUntouched(R)
         /\ (pc[s] = "idle" /\ pc'[s] \notin {"idle", "refused"}) =>
               Registers(s)]_vars

\* C13: when connect sends a peer-joined about user U of room R, U's key is
\* in active_connections and U is in room_users[R], at every send of the loop.
C13_RegistrationBeforeNotification ==
    JoinSend => /\ key(ev.room, Sender) \in DOMAIN active_connections
                /\ IsMember(<<ev.room, Sender>>)

\* a type entry that no branch of the dispatch names
Unrecognized(type) == type \notin RelayTypes \cup {"ping", NoType, ""}

\* C14: a handler that reads a message whose type is none of offer, answer,
\* ice-candidate and ping sends nothing, changes nothing in the registry,
\* stays open and is back at receive_json.
C14_UnrecognizedTypeNonFatal ==
    [][\A s \in Sessions :
         (ev'.from = s /\ ev'.k \in {"ignored", "error"}
                       /\ Unrecognized(ev'.type)) =>
            /\ ev'.k = "ignored"
            /\ active_connections' = active_connections
            /\ room_users' = room_users
            /\ pc[s] = "open" /\ pc'[s] = "open"
            /\ nread'[s] = nread[s] + 1
            /\ ndisc' = ndisc /\ heard' = heard /\ iter' = iter]_vars

\* a registered handler has ignored a message and can read the next one
W14_IgnoredAndOpen ==
    /\ ev.k = "ignored" /\ ev.type = "bye"
    /\ pc[ev.from] = "open" /\ IsMember(path[ev.from])
    /\ nmsgs < MaxMsgs

\* C15: no relay is sent without the payload entry of its type; the handler
\* that read an offer or answer without sdp, or an ice-candidate without
\* candidate, ends in its except clause with its entry and membership
\* removed, and every other handler stands where it stood.
C15_MalformedPayloadHandling ==
    [][\A s \in Sessions :
         /\ (ev'.k = "send" /\ ev'.type \in RelayTypes) => ev'.full
         /\ (ev'.from = s /\ ev'.k = "error" /\ ev'.type \in RelayTypes) =>
               /\ pc[s] = "open" /\ pc'[s] = "closed"
               /\ ndisc'[s] = ndisc[s] + 1
               /\ key(path[s][1], path[s][2]) \notin DOMAIN active_connections'
               /\ path[s][1] \in DOMAIN room_users' =>
                     path[s][2] \notin room_users'[path[s][1]]
               /\ \A t \in Sessions \ {s} :
                     pc'[t] = pc[t] /\ ndisc'[t] = ndisc[t]]_vars

\* a handler closed on a malformed relay while another one is open
W15_ClosedOnMalformed ==
    /\ ev.k = "error" /\ ev.type \in RelayTypes
    /\ pc[ev.from] = "closed"
    /\ \E t \in Sessions : pc[t] = "open"

\* C16: the listing GET /rooms returns is room_users of the instant of the
\* call; no room in it has an empty member list and every member in it has
\* its key in active_connections at that instant.
C16_CoherentSnapshot ==
    /\ get_rooms.rooms = room_users
    /\ get_rooms.active_rooms = Cardinality(DOMAIN get_rooms.rooms)
    /\ \A r \in DOMAIN get_rooms.rooms :
         /\ get_rooms.rooms[r] # {}
         /\ \A u \in get_rooms.rooms[r] :
              key(r, u) \in DOMAIN active_connections

\* C17: the users one broadcast_to_room sent to are the members of the room
\* at the instant the loop read room_users, without exclude_user: when the
\* call is over it has sent to nobody who was not a member then, to nobody
\* twice, and to every member of then that is still registered.
C17_AtomicMembershipRead ==
    RelayEnd =>
        /\ ev.added = {}
        /\ ~ev.dup
        /\ \A u \in ev.owed : key(ev.room, u) \notin DOMAIN active_connections

\* C18: a for loop of broadcast_to_room or connect ends by exhausting the
\* set, never by raising, whatever joins and leaves of other handlers fall
\* between its sends, and leaves its handler at receive_json with no
\* disconnect called.
C18_ConcurrentMutationDoesNotBreakFanout ==
    (RelayEnd \/ JoinEnd) =>
        /\ ev.k = "done"
        /\ pc[ev.from] = "open"
        /\ ndisc[ev.from] = 0

\* with registry (ac, ru) a broadcast to its room finds the websocket of n
Reachable(n, ac, ru) ==
    /\ key(path[n][1], path[n][2]) \in DOMAIN ac
    /\ ac[key(path[n][1], path[n][2])] = n
    /\ path[n][1] \in DOMAIN ru
    /\ path[n][2] \in ru[path[n][1]]

\* C19: when the handler of a websocket ends and calls disconnect after a
\* later connect with the same (room_id, user_id) took its place, the later
\* websocket is still the entry of its key and its user is still in the room.
C19_SupersededCleansOnlyItself ==
    [][\A o, n \in Sessions :
         (/\ o # n
          /\ ndisc'[o] > ndisc[o]
          /\ path[n] = path[o]
          /\ n \in Live
          /\ Reachable(n, active_connections, room_users))
            => Reachable(n, active_connections', room_users')]_vars

\* handlers that were started and are over
Terminated == { s \in Sessions : pc[s] \in {"refused", "closed", "escaped"} }

\* C20: every websocket stored in active_connections is the one of a handler
\* that is not over, and when no handler runs both active_connections and
\* room_users are empty.
C20_NoGhostEntries ==
    /\ \A k \in DOMAIN active_connections :
         active_connections[k] \notin Terminated
    /\ Live = {} => active_connections = <<>> /\ room_users = <<>>

====
